---------------------------- MODULE Spec2Model ----------------------------
(***************************************************************************)
(* Model of the monthly archiver (src/monthly_archive.py): the month       *)
(* boundary resolver, the file selector (remote and local), the archive    *)
(* assembler, the orchestrator archive_previous_month and the CLI main().  *)
(*                                                                         *)
(* A datetime is a record of its calendar fields, as Python's datetime is; *)
(* a remote key or local relative path is the tuple of its path segments.  *)
(***************************************************************************)
EXTENDS Integers, Sequences, FiniteSets, TLC

VARIABLES
    pc,              \* position of the single thread of control
    args,            \* the parsed command line (argparse namespace)
    env,             \* the world outside: object store / data directory, clock, faults
    use_s3,          \* MonthlyArchiver.use_s3
    reference_date,  \* the reference date handed to get_previous_month_range
    start_date,      \* window start
    end_date,        \* window end
    month_str,       \* start_date.strftime('%Y-%m')
    listed,          \* folder -> what the selector returned for it
    stats,           \* the stats dict of archive_previous_month
    zipf,            \* the ZIP being assembled: [folder, path, next], or NoZip
    disk,            \* output directory: set of [name, folder, entries, data, state]
    temp_dir,        \* the temporary workspace: [exists, files]
    uploads,         \* the upload_file calls made, in order: [src, key]
    exit_code,       \* << status >> once the process has exited, << >> before
    synth,           \* the content synthesizer: its call and the file it wrote
    history          \* ghost: the steps taken, where an error was raised, ZIPs
                     \* completed, which run this is, the disk left by the first

vars == << pc, args, env, use_s3, reference_date, start_date, end_date,
           month_str, listed, stats, zipf, disk, temp_dir, uploads,
           exit_code, synth, history >>

-----------------------------------------------------------------------------
(* Bounds of the model *)

YearBase == 2023
NumYears == 3
MaxObjs == 3

-----------------------------------------------------------------------------
(* datetime *)

None == "None"

IsLeap(y) == (y % 4 = 0 /\ y % 100 # 0) \/ y % 400 = 0

DaysInMonth(y, m) ==
    IF m = 2 THEN (IF IsLeap(y) THEN 29 ELSE 28)
    ELSE IF m \in {4, 6, 9, 11} THEN 30 ELSE 31

DateTime(y, mo, d, h, mi, s, us, tz) ==
    [year |-> y, month |-> mo, day |-> d, hour |-> h, minute |-> mi,
     second |-> s, microsecond |-> us, tzinfo |-> tz]

\* variant: the microsecond left as it was
ReplaceFirstInstant_keep_microsecond(d) ==
    [d EXCEPT !.day = 1, !.hour = 0, !.minute = 0, !.second = 0]

\* datetime.replace(day=1, hour=0, minute=0, second=0, microsecond=0)
ReplaceFirstInstant(d) ==
    [d EXCEPT !.day = 1, !.hour = 0, !.minute = 0, !.second = 0,
              !.microsecond = 0]

\* datetime.replace(tzinfo=timezone.utc): relabels, moves no field
ReplaceTzUtc(d) == [d EXCEPT !.tzinfo = "utc"]

\* d - timedelta(days=1)
MinusOneDay(d) ==
    IF d.day > 1 THEN [d EXCEPT !.day = d.day - 1]
    ELSE IF d.month > 1
         THEN [d EXCEPT !.month = d.month - 1,
                        !.day = DaysInMonth(d.year, d.month - 1)]
         ELSE [d EXCEPT !.year = d.year - 1, !.month = 12, !.day = 31]

\* d - timedelta(microseconds=1)
MinusOneMicrosecond(d) ==
    IF d.microsecond > 0 THEN [d EXCEPT !.microsecond = d.microsecond - 1]
    ELSE IF d.second > 0
         THEN [d EXCEPT !.second = d.second - 1, !.microsecond = 999999]
    ELSE IF d.minute > 0
         THEN [d EXCEPT !.minute = d.minute - 1, !.second = 59,
                        !.microsecond = 999999]
    ELSE IF d.hour > 0
         THEN [d EXCEPT !.hour = d.hour - 1, !.minute = 59, !.second = 59,
                        !.microsecond = 999999]
    ELSE [MinusOneDay(d) EXCEPT !.hour = 23, !.minute = 59, !.second = 59,
                                !.microsecond = 999999]

Fields(d) == << d.year, d.month, d.day, d.hour, d.minute, d.second,
                d.microsecond >>

RECURSIVE TupleLe(_, _)
TupleLe(a, b) ==
    IF a = << >> THEN TRUE
    ELSE IF Head(a) # Head(b) THEN Head(a) < Head(b)
    ELSE TupleLe(Tail(a), Tail(b))

\* a <= b on datetimes of the same awareness
DtLe(a, b) == TupleLe(Fields(a), Fields(b))

\* variant: the upper bound taken exclusive
InRange_half_open(start, t, end) == DtLe(start, t) /\ ~DtLe(end, t)

\* start_date <= file_date <= end_date
InRange(start, t, end) == DtLe(start, t) /\ DtLe(t, end)

Pad2(n) == IF n < 10 THEN "0" \o ToString(n) ELSE ToString(n)

\* d.strftime('%Y-%m') for four-digit years
StrftimeYm(d) == ToString(d.year) \o "-" \o Pad2(d.month)

-----------------------------------------------------------------------------
(* MonthlyArchiver.get_previous_month_range *)

\* variant: the end taken one day, not one microsecond, before the first
\* of the current month
get_previous_month_range_day_end(ref, s3) ==
    LET first_of_current_month == ReplaceFirstInstant(ref)
        last_of_previous_month == MinusOneDay(first_of_current_month)
        first_of_previous_month == ReplaceFirstInstant(last_of_previous_month)
        end_of_previous_month == MinusOneDay(first_of_current_month)
    IN  IF s3 THEN << ReplaceTzUtc(first_of_previous_month),
                      ReplaceTzUtc(end_of_previous_month) >>
        ELSE << first_of_previous_month, end_of_previous_month >>

get_previous_month_range(ref, s3) ==
    LET first_of_current_month == ReplaceFirstInstant(ref)
        last_of_previous_month == MinusOneDay(first_of_current_month)
        first_of_previous_month == ReplaceFirstInstant(last_of_previous_month)
        end_of_previous_month == MinusOneMicrosecond(first_of_current_month)
    IN  IF s3 THEN << ReplaceTzUtc(first_of_previous_month),
                      ReplaceTzUtc(end_of_previous_month) >>
        ELSE << first_of_previous_month, end_of_previous_month >>


-----------------------------------------------------------------------------
(* The source set: remote objects / local directory entries *)

Folders == << "Opening", "Customer" >>

\* head_object outcomes: the request fails, the object carries no
\* 'original-timestamp', or it carries one with the given text.  The text
\* of a timestamp is the tuple of the numbers written in its
\* YYYY-MM-DDTHH:MM:SS places, << >> when it is not of that shape.
HeadError == [kind |-> "error", text |-> << >>]
NoMetadata == [kind |-> "absent", text |-> << >>]
OriginalTimestamp(text) == [kind |-> "present", text |-> text]

\* datetime.strptime(timestamp_str, '%Y-%m-%dT%H:%M:%S'): ValueError unless
\* the text has the shape and names a real instant
StrptimeOk(text) ==
    /\ Len(text) = 6
    /\ text[1] \in 1..9999
    /\ text[2] \in 1..12
    /\ text[3] \in 1..DaysInMonth(text[1], text[2])
    /\ text[4] \in 0..23
    /\ text[5] \in 0..59
    /\ text[6] \in 0..59

Strptime(text) ==
    DateTime(text[1], text[2], text[3], text[4], text[5], text[6], 0, "naive")

-----------------------------------------------------------------------------
(* MonthlyArchiver.list_s3_files *)

\* variant: the metadata value read but LastModified compared
TryBody_last_modified(obj, start, end) ==
    IF obj.head.kind = "error" THEN [raised |-> TRUE, append |-> FALSE]
    ELSE IF obj.head.kind = "present" /\ ~StrptimeOk(obj.head.text)
         THEN [raised |-> TRUE, append |-> FALSE]
         ELSE [raised |-> FALSE,
               append |-> InRange(start, obj.LastModified, end)]

\* the body of the try block for one listed object: raises, or decides
TryBody(obj, start, end) ==
    IF obj.head.kind = "error" THEN [raised |-> TRUE, append |-> FALSE]
    ELSE IF obj.head.kind = "present"
         THEN IF StrptimeOk(obj.head.text)
              THEN [raised |-> FALSE,
                    append |-> InRange(start,
                                       ReplaceTzUtc(Strptime(obj.head.text)),
                                       end)]
              ELSE [raised |-> TRUE, append |-> FALSE]
         ELSE [raised |-> FALSE,
               append |-> InRange(start, obj.LastModified, end)]

\* variant: an except block that lets the error through
ExceptBody_reraise(obj, start, end) == [raised |-> TRUE, append |-> FALSE]

\* the except block: fall back to LastModified, nothing raised further
ExceptBody(obj, start, end) ==
    [raised |-> FALSE, append |-> InRange(start, obj.LastModified, end)]

ObjectStep(obj, start, end) ==
    IF TryBody(obj, start, end).raised THEN ExceptBody(obj, start, end)
    ELSE TryBody(obj, start, end)

\* paginate(Prefix=prefix) yields, in key order, the objects whose key
\* begins with the prefix; the loop runs until an iteration raises
RECURSIVE ListLoop(_, _, _, _, _)
ListLoop(objs, prefix, start, end, files) ==
    IF objs = << >> THEN [raised |-> FALSE, files |-> files]
    ELSE IF Head(objs).Key[1] # prefix
         THEN ListLoop(Tail(objs), prefix, start, end, files)
    ELSE LET r == ObjectStep(Head(objs), start, end)
         IN  IF r.raised THEN [raised |-> TRUE, files |-> files]
             ELSE ListLoop(Tail(objs), prefix, start, end,
                           IF r.append THEN Append(files, Head(objs).Key)
                           ELSE files)

list_s3_files(objs, prefix, start, end) ==
    ListLoop(objs, prefix, start, end, << >>)

-----------------------------------------------------------------------------
(* MonthlyArchiver.list_local_files *)

\* folder_path.rglob('*'): every entry below the folder, directories too
RECURSIVE LocalLoop(_, _, _, _, _)
LocalLoop(entries, folder_name, start, end, files) ==
    IF entries = << >> THEN files
    ELSE LET e == Head(entries)
         IN  LocalLoop(Tail(entries), folder_name, start, end,
                       IF /\ e.Key[1] = folder_name
                          /\ Len(e.Key) > 1
                          /\ e.is_file
                          /\ InRange(start, e.LastModified, end)
                       THEN Append(files, e.Key)
                       ELSE files)

list_local_files(entries, folder_name, start, end) ==
    [raised |-> FALSE,
     files |-> LocalLoop(entries, folder_name, start, end, << >>)]

\* the selector archive_previous_month calls for a folder
Selector(s3, objs, folder, start, end) ==
    IF s3 THEN list_s3_files(objs, folder, start, end)
    ELSE list_local_files(objs, folder, start, end)


-----------------------------------------------------------------------------
(* Values of the state that a specification has not set yet *)

NoExit == << >>
NoZip == [folder |-> None, path |-> << >>, next |-> 0]
NoStats == [month |-> None, opening_files |-> 0, customer_files |-> 0,
            opening_zip |-> << >>, customer_zip |-> << >>]
NoArgs == [bucket |-> None, local_dir |-> None, date |-> << >>,
           upload_to_s3 |-> FALSE]
NoTemp == [exists |-> FALSE, files |-> {}]
NotListed == [raised |-> FALSE, files |-> << >>, done |-> FALSE]
NoHistory == [raised_at |-> None, uncaught |-> FALSE, trace |-> << >>,
              completed |-> {}, run |-> 1, first_disk |-> {},
              first_exit |-> << >>, log |-> << >>]
NoDate == DateTime(0, 0, 0, 0, 0, 0, 0, "naive")
NoSynth == [pc |-> "idle", kind |-> None, size_bytes |-> 0, written |-> << >>]

IdleRun ==
    /\ args = NoArgs
    /\ start_date = NoDate
    /\ end_date = NoDate
    /\ month_str = None
    /\ listed = [f \in {"Opening", "Customer"} |-> NotListed]
    /\ stats = NoStats
    /\ zipf = NoZip
    /\ disk = {}
    /\ temp_dir = NoTemp
    /\ uploads = << >>
    /\ exit_code = NoExit
    /\ synth = NoSynth
    /\ history = NoHistory

-----------------------------------------------------------------------------
(* SpecRange: get_previous_month_range over reference dates *)

Years == (YearBase .. YearBase + NumYears - 1) \cup {2000, 2100}

\* times of day: the first instant, the next microsecond, mid-morning and
\* the last microsecond of the day
TimesOfDay == { << 0, 0, 0, 0 >>, << 0, 0, 0, 1 >>, << 10, 30, 15, 500000 >>,
                << 23, 59, 59, 999999 >> }

RefDates ==
    { DateTime(y, m, d, t[1], t[2], t[3], t[4], "naive") :
        y \in Years, m \in 1..12, d \in {1, 15, 28, 29, 30, 31},
        t \in TimesOfDay }

ValidDate(d) == d.day <= DaysInMonth(d.year, d.month)

NoEnv == [objects |-> << >>, has_boto3 |-> TRUE, local_exists |-> TRUE,
          now |-> NoDate]

InitRange ==
    /\ pc = "range_call"
    /\ reference_date \in { d \in RefDates : ValidDate(d) }
    /\ use_s3 \in BOOLEAN
    /\ env = NoEnv
    /\ IdleRun

RangeCall ==
    /\ pc = "range_call"
    /\ start_date' = get_previous_month_range(reference_date, use_s3)[1]
    /\ end_date' = get_previous_month_range(reference_date, use_s3)[2]
    /\ month_str' = StrftimeYm(start_date')
    /\ pc' = "range_done"
    /\ UNCHANGED << synth, args, env, use_s3, reference_date, listed, stats, zipf,
                    disk, temp_dir, uploads, exit_code, history >>

NextRange == RangeCall

SpecRange == InitRange /\ [][NextRange]_vars

\* t + one microsecond, by carrying
PlusOneMicrosecond(d) ==
    IF d.microsecond < 999999 THEN [d EXCEPT !.microsecond = d.microsecond + 1]
    ELSE IF d.second < 59
         THEN [d EXCEPT !.second = d.second + 1, !.microsecond = 0]
    ELSE IF d.minute < 59
         THEN [d EXCEPT !.minute = d.minute + 1, !.second = 0,
                        !.microsecond = 0]
    ELSE IF d.hour < 23
         THEN [d EXCEPT !.hour = d.hour + 1, !.minute = 0, !.second = 0,
                        !.microsecond = 0]
    ELSE IF d.day < DaysInMonth(d.year, d.month)
         THEN [d EXCEPT !.day = d.day + 1, !.hour = 0, !.minute = 0,
                        !.second = 0, !.microsecond = 0]
    ELSE IF d.month < 12
         THEN [d EXCEPT !.month = d.month + 1, !.day = 1, !.hour = 0,
                        !.minute = 0, !.second = 0, !.microsecond = 0]
    ELSE [d EXCEPT !.year = d.year + 1, !.month = 1, !.day = 1, !.hour = 0,
                   !.minute = 0, !.second = 0, !.microsecond = 0]

Tz == IF use_s3 THEN "utc" ELSE "naive"

\* C1: for every reference date D, get_previous_month_range(D) returns a
\* start that is 00:00:00.000000 on day 1 of the calendar month before D's
\* month (December of the previous year when D is in January), an end that
\* is exactly one microsecond before 00:00:00.000000 on day 1 of D's month,
\* and start and end lie in the same month.
C1_PreviousMonthRange ==
    pc = "range_done" =>
        LET D == reference_date
            py == IF D.month = 1 THEN D.year - 1 ELSE D.year
            pm == IF D.month = 1 THEN 12 ELSE D.month - 1
        IN  /\ start_date = DateTime(py, pm, 1, 0, 0, 0, 0, Tz)
            /\ PlusOneMicrosecond(end_date)
                 = DateTime(D.year, D.month, 1, 0, 0, 0, 0, Tz)
            /\ start_date.month = end_date.month
            /\ start_date.year = end_date.year

\* a January reference date on the last microsecond of a day has had its
\* window computed: December of the year before
C1_Witness ==
    /\ pc = "range_done"
    /\ reference_date.month = 1
    /\ reference_date.microsecond = 999999
    /\ start_date.month = 12
    /\ start_date.year = reference_date.year - 1


-----------------------------------------------------------------------------
(* SpecList: the file selector over source sets *)

\* keys in the store's listing order (byte order of the key)
KeyPool == << << "Customer", "CUST_20250915_0001.pdf" >>,
              << "Opening", "TXN100001", "IDD.pdf" >>,
              << "Opening", "TXN100001", "KYC.pdf" >>,
              << "Opening", "TXN100002", "OPA.xml" >> >>

\* stamps around the window of September 2025: its last microsecond before,
\* its first instant, its last microsecond, the first instant after
Stamps(tz) == { DateTime(2025, 8, 31, 23, 59, 59, 999999, tz),
                DateTime(2025, 9, 1, 0, 0, 0, 0, tz),
                DateTime(2025, 9, 30, 23, 59, 59, 999999, tz),
                DateTime(2025, 10, 1, 0, 0, 0, 0, tz) }

\* metadata: inside the window, outside it, not a date (month 13)
Heads == { HeadError, NoMetadata,
           OriginalTimestamp(<< 2025, 9, 30, 23, 59, 59 >>),
           OriginalTimestamp(<< 2025, 10, 1, 0, 0, 0 >>),
           OriginalTimestamp(<< 2025, 13, 1, 0, 0, 0 >>) }

RemoteAttrs == [LastModified : Stamps("utc"), head : Heads, is_file : {TRUE}]
LocalAttrs == [LastModified : Stamps("naive"), head : {NoMetadata},
               is_file : BOOLEAN]

RECURSIVE MkObjects(_, _, _)
MkObjects(i, present, attrs) ==
    IF i > Len(KeyPool) THEN << >>
    ELSE IF i \in present
         THEN << [Key |-> KeyPool[i],
                  LastModified |-> attrs[i].LastModified,
                  head |-> attrs[i].head,
                  is_file |-> attrs[i].is_file] >>
              \o MkObjects(i + 1, present, attrs)
         ELSE MkObjects(i + 1, present, attrs)

ListRefDate == DateTime(2025, 10, 15, 10, 30, 15, 500000, "naive")

InitList ==
    /\ pc = "select_window"
    /\ use_s3 \in BOOLEAN
    /\ reference_date = ListRefDate
    /\ \E present \in { P \in SUBSET (1..Len(KeyPool)) : Cardinality(P) <= MaxObjs } :
         \E attrs \in [present -> IF use_s3 THEN RemoteAttrs ELSE LocalAttrs] :
            env = [NoEnv EXCEPT !.objects = MkObjects(1, present, attrs)]
    /\ IdleRun

SelectWindow ==
    /\ pc = "select_window"
    /\ start_date' = get_previous_month_range(reference_date, use_s3)[1]
    /\ end_date' = get_previous_month_range(reference_date, use_s3)[2]
    /\ month_str' = StrftimeYm(start_date')
    /\ pc' = "select_Opening"
    /\ UNCHANGED << synth, args, env, use_s3, reference_date, listed, stats, zipf,
                    disk, temp_dir, uploads, exit_code, history >>

SelectFolder(f, then) ==
    /\ pc = "select_" \o f
    /\ LET r == Selector(use_s3, env.objects, f, start_date, end_date)
       IN  listed' = [listed EXCEPT ![f] = [raised |-> r.raised,
                                            files |-> r.files,
                                            done |-> TRUE]]
    /\ pc' = then
    /\ UNCHANGED << synth, args, env, use_s3, reference_date, start_date, end_date,
                    month_str, stats, zipf, disk, temp_dir, uploads,
                    exit_code, history >>

NextList ==
    \/ SelectWindow
    \/ SelectFolder("Opening", "select_Customer")
    \/ SelectFolder("Customer", "select_done")

SpecList == InitList /\ [][NextList]_vars


-----------------------------------------------------------------------------
(* Properties of the selector *)

\* a strictly before b, field by field
Before(a, b) ==
    \E i \in 1..7 :
        /\ Fields(a)[i] < Fields(b)[i]
        /\ \A j \in 1..(i - 1) : Fields(a)[j] = Fields(b)[j]

\* t in the closed interval [start_date, end_date]
Within(t) == ~Before(t, start_date) /\ ~Before(end_date, t)

Objs == { env.objects[i] : i \in 1..Len(env.objects) }

Range(seq) == { seq[i] : i \in 1..Len(seq) }

ValidMetadata(o) == o.head.kind = "present" /\ StrptimeOk(o.head.text)

\* the instant a valid 'original-timestamp' names
MetadataInstant(o) ==
    DateTime(o.head.text[1], o.head.text[2], o.head.text[3], o.head.text[4],
             o.head.text[5], o.head.text[6], 0, "utc")

EffectiveTimestamp(o) ==
    IF use_s3 /\ ValidMetadata(o) THEN MetadataInstant(o) ELSE o.LastModified

SelectDone == pc = "select_done"

Selected(o) == o.Key \in Range(listed[o.Key[1]].files)

\* C2: for every remote object whose 'original-timestamp' metadata is
\* present and parses, list_s3_files decides membership by that value alone:
\* the object is selected iff the metadata value lies in [start, end],
\* whatever its last-modified stamp.
C2_MetadataDecides ==
    (SelectDone /\ use_s3) =>
        \A o \in Objs :
            ValidMetadata(o) => (Selected(o) <=> Within(MetadataInstant(o)))

\* both disagreements happened in one listing: an object stamped inside the
\* window with metadata outside it was left out, and one stamped outside
\* with metadata inside was selected
C2_Witness ==
    /\ SelectDone /\ use_s3
    /\ \E o \in Objs : /\ ValidMetadata(o)
                       /\ Within(o.LastModified)
                       /\ ~Within(MetadataInstant(o))
                       /\ ~Selected(o)
    /\ \E o \in Objs : /\ ValidMetadata(o)
                       /\ ~Within(o.LastModified)
                       /\ Within(MetadataInstant(o))
                       /\ Selected(o)

RECURSIVE Without(_, _)
Without(seq, x) ==
    IF seq = << >> THEN << >>
    ELSE IF Head(seq) = x THEN Without(Tail(seq), x)
    ELSE << Head(seq) >> \o Without(Tail(seq), x)

\* C3: when the metadata lookup for one object fails, or its
\* 'original-timestamp' is absent or unparseable, no error leaves the
\* listing, that object is judged by its last-modified stamp, and the
\* objects listed before and after it are selected exactly as they are in
\* the same store without that object.
C3_FallbackPerObject ==
    (SelectDone /\ use_s3) =>
        /\ \A f \in Range(Folders) : ~listed[f].raised
        /\ \A o \in Objs :
              ~ValidMetadata(o) =>
                  /\ Selected(o) <=> Within(o.LastModified)
                  /\ Without(listed[o.Key[1]].files, o.Key)
                       = list_s3_files(Without(env.objects, o), o.Key[1],
                                       start_date, end_date).files

\* an object whose head request failed sits between two others of its
\* folder; it and both neighbours were selected
C3_Witness ==
    /\ SelectDone /\ use_s3
    /\ \E i \in 2..(Len(env.objects) - 1) :
          /\ env.objects[i].head.kind = "error"
          /\ env.objects[i - 1].Key[1] = env.objects[i].Key[1]
          /\ env.objects[i + 1].Key[1] = env.objects[i].Key[1]
          /\ Selected(env.objects[i - 1])
          /\ Selected(env.objects[i])
          /\ Selected(env.objects[i + 1])

\* C4: the selector returns exactly the files under the folder whose
\* effective timestamp t satisfies start <= t <= end, both bounds
\* inclusive, each once; with the window of September 2025 a file stamped
\* 2025-09-01 00:00:00.000000 or 2025-09-30 23:59:59.999999 is selected and
\* one stamped 2025-08-31 23:59:59.999999 or 2025-10-01 00:00:00.000000 is
\* not.
C4_ClosedInterval ==
    SelectDone =>
        \A f \in Range(Folders) :
            /\ Range(listed[f].files)
                 = { o.Key : o \in { x \in Objs :
                                       /\ x.Key[1] = f
                                       /\ x.is_file
                                       /\ Within(EffectiveTimestamp(x)) } }
            /\ Cardinality(Range(listed[f].files)) = Len(listed[f].files)
            /\ \A o \in Objs :
                  (o.Key[1] = f /\ o.is_file) =>
                      LET t == Fields(EffectiveTimestamp(o))
                      IN  /\ t = << 2025, 9, 1, 0, 0, 0, 0 >> => Selected(o)
                          /\ t = << 2025, 9, 30, 23, 59, 59, 999999 >>
                               => Selected(o)
                          /\ t = << 2025, 8, 31, 23, 59, 59, 999999 >>
                               => ~Selected(o)
                          /\ t = << 2025, 10, 1, 0, 0, 0, 0 >> => ~Selected(o)

\* a local listing met all four boundary stamps in one folder and kept the
\* two inside
C4_Witness ==
    /\ SelectDone /\ ~use_s3
    /\ Len(listed["Opening"].files) = 2
    /\ \E a, b, c \in Objs :
          /\ a.Key[1] = "Opening" /\ b.Key[1] = "Opening" /\ c.Key[1] = "Opening"
          /\ a.is_file /\ b.is_file /\ c.is_file
          /\ Fields(a.LastModified) = << 2025, 9, 1, 0, 0, 0, 0 >>
          /\ Fields(b.LastModified) = << 2025, 9, 30, 23, 59, 59, 999999 >>
          /\ Fields(c.LastModified) = << 2025, 10, 1, 0, 0, 0, 0 >>
          /\ Selected(a) /\ Selected(b) /\ ~Selected(c)


-----------------------------------------------------------------------------
(* main(): the command line *)

\* bool(x) of an optional string argument: None and '' are false
Truthy(x) == x # None /\ x # ""

\* a --date value is the tuple of the numbers in its YYYY-MM-DD places;
\* << >> is the empty string
NoDateArg == [given |-> FALSE, text |-> << >>]
DateArg(text) == [given |-> TRUE, text |-> text]
DateTruthy(d) == d.given /\ d.text # << >>

\* datetime.strptime(args.date, '%Y-%m-%d') not raising ValueError
StrptimeDateOk(text) ==
    /\ Len(text) = 3
    /\ text[1] \in 1..9999
    /\ text[2] \in 1..12
    /\ text[3] \in 1..DaysInMonth(text[1], text[2])

StrptimeDate(text) ==
    DateTime(text[1], text[2], text[3], 0, 0, 0, 0, "naive")

\* variant: the validation without the both-given test
ParserErrors_neither_only(a) ==
    \/ ~Truthy(a.bucket) /\ ~Truthy(a.local_dir)
    \/ DateTruthy(a.date) /\ ~StrptimeDateOk(a.date.text)

\* the cases in which main() calls parser.error
ParserErrors(a) ==
    \/ ~Truthy(a.bucket) /\ ~Truthy(a.local_dir)
    \/ Truthy(a.bucket) /\ Truthy(a.local_dir)
    \/ DateTruthy(a.date) /\ ~StrptimeDateOk(a.date.text)

\* parser.error prints the usage and exits the process with status 2
ParserErrorExit == << 2 >>

\* variant: an except clause in main that reports success
MainExceptExit_zero == << 0 >>

\* main's except clause: print the error, return 1
MainExceptExit == << 1 >>

\* an exception that main does not catch ends the interpreter with status 1
UncaughtExit == << 1 >>

MainReturnExit == << 0 >>

-----------------------------------------------------------------------------
(* archive_previous_month and create_zip_archive, step by step *)

OutputDir == "./archives"

ZipName(folder, month) == folder \o "_" \o month \o ".zip"
ZipPath(folder, month) == << OutputDir, ZipName(folder, month) >>
\* Path(p).name
PathName(p) == p[Len(p)]

FilesKey(f) == IF f = "Opening" THEN "opening_files" ELSE "customer_files"
ZipKey(f) == IF f = "Opening" THEN "opening_zip" ELSE "customer_zip"

\* variant: the arcname dropped to the file's own name
ArcName_flat(file_key) == << file_key[Len(file_key)] >>

\* zipf.write(local_file, arcname=file_key)
ArcName(file_key) == file_key

\* variant: assembling whatever the selector returned
ShouldAssemble_always(files) == TRUE

\* 'if opening_files:' / 'if customer_files:'
ShouldAssemble(files) == files # << >>

\* variant: uploading whenever the flag is set
UploadWanted_flag_only(upload_to_s3, s3) == upload_to_s3

\* 'if upload_to_s3 and self.use_s3:'
UploadWanted(upload_to_s3, s3) == upload_to_s3 /\ s3

\* variant: a workspace that outlives its block
Cleanup_keep(t) == t

\* TemporaryDirectory.__exit__: the directory and all in it are removed
Cleanup(t) == [exists |-> FALSE, files |-> {}]

\* positions inside the 'with tempfile.TemporaryDirectory()' block
InWith(p) == p \in { "list_Opening", "open_Opening", "add_Opening",
                     "list_Customer", "open_Customer", "add_Customer",
                     "exit_temp" }

AfterFolder(f) == IF f = "Opening" THEN "list_Customer" ELSE "exit_temp"

Step(label) == history' = [history EXCEPT !.trace = Append(@, label)]

\* an exception raised at 'label' inside archive_previous_month: it unwinds
\* through the with blocks it is in and is caught in main
Unwind(label) ==
    /\ temp_dir' = IF InWith(pc) THEN Cleanup(temp_dir) ELSE temp_dir
    /\ exit_code' = MainExceptExit
    /\ pc' = "exit"
    /\ zipf' = NoZip
    /\ history' = [history EXCEPT !.trace = Append(@, label),
                                  !.raised_at = label]


\* main, lines 349-364: validation and the reference date
ParseArgs ==
    /\ pc = "main"
    /\ IF ParserErrors(args)
       THEN /\ exit_code' = ParserErrorExit
            /\ pc' = "exit"
            /\ UNCHANGED << use_s3, reference_date >>
       ELSE /\ reference_date' = IF DateTruthy(args.date)
                                 THEN StrptimeDate(args.date.text)
                                 ELSE NoDate
            /\ use_s3' = Truthy(args.bucket)
            /\ pc' = "construct"
            /\ UNCHANGED exit_code
    /\ Step("main")
    /\ UNCHANGED << synth, args, env, start_date, end_date, month_str, listed,
                    stats, zipf, disk, temp_dir, uploads >>

\* MonthlyArchiver.__init__, called outside main's try block
Construct ==
    /\ pc = "construct"
    /\ IF \/ use_s3 /\ ~env.has_boto3
          \/ ~use_s3 /\ (~Truthy(args.local_dir) \/ ~env.local_exists)
       THEN /\ exit_code' = UncaughtExit
            /\ pc' = "exit"
            /\ history' = [history EXCEPT !.trace = Append(@, "construct"),
                                          !.uncaught = TRUE]
       ELSE /\ pc' = "begin"
            /\ Step("construct")
            /\ UNCHANGED exit_code
    /\ UNCHANGED << synth, args, env, use_s3, reference_date, start_date, end_date,
                    month_str, listed, stats, zipf, disk, temp_dir, uploads >>

\* archive_previous_month, lines 218-240: the window, the stats dict and
\* the temporary directory
Begin ==
    /\ pc = "begin"
    /\ reference_date' = IF reference_date = NoDate THEN env.now
                         ELSE reference_date
    /\ start_date' = get_previous_month_range(reference_date', use_s3)[1]
    /\ end_date' = get_previous_month_range(reference_date', use_s3)[2]
    /\ month_str' = StrftimeYm(start_date')
    /\ stats' = [NoStats EXCEPT !.month = month_str']
    /\ temp_dir' = [exists |-> TRUE, files |-> {}]
    /\ pc' = "list_Opening"
    /\ Step("begin")
    /\ UNCHANGED << synth, args, env, use_s3, listed, zipf, disk, uploads,
                    exit_code >>

\* lines 243-251 / 262-270: the selector call for one folder
List(f) ==
    /\ pc = "list_" \o f
    /\ LET r == Selector(use_s3, env.objects, f, start_date, end_date)
       IN  \/ /\ ~r.raised
              /\ listed' = [listed EXCEPT ![f] = [raised |-> FALSE,
                                                  files |-> r.files,
                                                  done |-> TRUE]]
              /\ pc' = IF ShouldAssemble(r.files) THEN "open_" \o f
                       ELSE AfterFolder(f)
              /\ Step("list_" \o f)
              /\ UNCHANGED << temp_dir, exit_code, zipf >>
           \/ \* the listing request itself fails
              /\ Unwind("list_" \o f)
              /\ UNCHANGED listed
    /\ UNCHANGED << synth, args, env, use_s3, reference_date, start_date, end_date,
                    month_str, stats, disk, uploads >>

PutFile(d, z) == { x \in d : x.name # z.name } \cup {z}

FileNamed(d, n) == CHOOSE x \in d : x.name = n

\* variant: the ZIP opened for appending, keeping what a file of that name
\* already holds
ZipFileW_append(d, path, f) ==
    IF \E x \in d : x.name = PathName(path)
    THEN [FileNamed(d, PathName(path)) EXCEPT !.state = "open"]
    ELSE [name |-> PathName(path), folder |-> f, entries |-> << >>,
          data |-> << >>, state |-> "open"]

\* zipfile.ZipFile(zip_path, 'w', ZIP_DEFLATED): a new, empty archive, in
\* place of any file of that name
ZipFileW(d, path, f) ==
    [name |-> PathName(path), folder |-> f, entries |-> << >>,
     data |-> << >>, state |-> "open"]

\* the bytes zipf.write reads for a key: those of the source file or object
\* of that key, named by the key and the stamp of its last change
SourceBody(objs, file_key) ==
    LET o == CHOOSE x \in { objs[i] : i \in 1..Len(objs) } : x.Key = file_key
    IN  [of |-> o.Key, as_of |-> o.LastModified]

\* create_zip_archive, lines 188-192: the empty check and ZipFile(.., 'w');
\* on an empty list it returns 0 and the caller records the count and the
\* path and stats the file
ZipOpen(f) ==
    /\ pc = "open_" \o f
    /\ LET path == ZipPath(f, month_str)
       IN  IF listed[f].files = << >>
           THEN /\ stats' = [stats EXCEPT ![FilesKey(f)] = 0,
                                          ![ZipKey(f)] = path]
                /\ IF \E x \in disk : x.name = PathName(path)
                   THEN /\ pc' = AfterFolder(f)
                        /\ Step("open_" \o f)
                        /\ UNCHANGED << temp_dir, exit_code, zipf >>
                   ELSE Unwind("stat_" \o f)
                /\ UNCHANGED disk
           ELSE \/ /\ disk' = PutFile(disk, ZipFileW(disk, path, f))
                   /\ zipf' = [folder |-> f, path |-> path, next |-> 1]
                   /\ pc' = "add_" \o f
                   /\ Step("open_" \o f)
                   /\ UNCHANGED << temp_dir, exit_code, stats >>
                \/ \* the output file cannot be created
                   /\ Unwind("open_" \o f)
                   /\ UNCHANGED << disk, stats >>
    /\ UNCHANGED << synth, args, env, use_s3, reference_date, start_date, end_date,
                    month_str, listed, uploads >>

\* create_zip_archive, lines 193-203: one iteration of the loop; an error
\* leaves the with block, which closes the ZIP with what it holds
ZipAdd(f) ==
    /\ pc = "add_" \o f
    /\ zipf.next <= Len(listed[f].files)
    /\ LET file_key == listed[f].files[zipf.next]
           z == FileNamed(disk, PathName(zipf.path))
       IN  \/ /\ temp_dir' = IF use_s3
                             THEN [temp_dir EXCEPT !.files = @ \cup {file_key}]
                             ELSE temp_dir
              /\ disk' = PutFile(disk,
                     [z EXCEPT !.entries = Append(@, ArcName(file_key)),
                               !.data = Append(@, SourceBody(env.objects,
                                                             file_key))])
              /\ zipf' = [zipf EXCEPT !.next = @ + 1]
              /\ Step("add_" \o f \o "_" \o ToString(zipf.next))
              /\ UNCHANGED << pc, exit_code >>
           \/ \* download_file fails
              /\ use_s3
              /\ disk' = PutFile(disk, [z EXCEPT !.state = "partial"])
              /\ Unwind("download_" \o f)
           \/ \* zipf.write fails
              /\ disk' = PutFile(disk, [z EXCEPT !.state = "partial"])
              /\ Unwind("write_" \o f)
    /\ UNCHANGED << synth, args, env, use_s3, reference_date, start_date, end_date,
                    month_str, listed, stats, uploads >>

\* create_zip_archive, line 205, and the caller's lines 255-259: the ZIP is
\* closed, the count returned and recorded with the path
ZipClose(f) ==
    /\ pc = "add_" \o f
    /\ zipf.next > Len(listed[f].files)
    /\ LET z == FileNamed(disk, PathName(zipf.path))
       IN  disk' = PutFile(disk, [z EXCEPT !.state = "complete"])
    /\ stats' = [stats EXCEPT ![FilesKey(f)] = Len(listed[f].files),
                              ![ZipKey(f)] = zipf.path]
    /\ zipf' = NoZip
    /\ pc' = AfterFolder(f)
    /\ history' = [history EXCEPT !.trace = Append(@, "close_" \o f),
                                  !.completed = @ \cup {PathName(zipf.path)}]
    /\ UNCHANGED << synth, args, env, use_s3, reference_date, start_date, end_date,
                    month_str, listed, temp_dir, uploads, exit_code >>

\* the end of the 'with tempfile.TemporaryDirectory()' block
ExitTemp ==
    /\ pc = "exit_temp"
    /\ temp_dir' = Cleanup(temp_dir)
    /\ pc' = "upload_Opening"
    /\ Step("exit_temp")
    /\ UNCHANGED << synth, args, env, use_s3, reference_date, start_date, end_date,
                    month_str, listed, stats, zipf, disk, uploads,
                    exit_code >>

\* lines 281-293: the upload of one folder's archive
Upload(f, then) ==
    /\ pc = "upload_" \o f
    /\ IF UploadWanted(args.upload_to_s3, use_s3) /\ stats[ZipKey(f)] # << >>
       THEN \/ /\ uploads' = Append(uploads,
                      [src |-> stats[ZipKey(f)],
                       key |-> "archives/" \o PathName(stats[ZipKey(f)])])
               /\ pc' = then
               /\ Step("upload_" \o f)
               /\ UNCHANGED << temp_dir, exit_code, zipf >>
            \/ \* upload_file fails
               /\ Unwind("upload_" \o f)
               /\ UNCHANGED uploads
       ELSE /\ pc' = then
            /\ Step("skip_upload_" \o f)
            /\ UNCHANGED << temp_dir, exit_code, zipf, uploads >>
    /\ UNCHANGED << synth, args, env, use_s3, reference_date, start_date, end_date,
                    month_str, listed, stats, disk >>

\* lines 295-309 and main's 'return 0'
Summary ==
    /\ pc = "summary"
    /\ exit_code' = MainReturnExit
    /\ pc' = "exit"
    /\ Step("summary")
    /\ UNCHANGED << synth, args, env, use_s3, reference_date, start_date, end_date,
                    month_str, listed, stats, zipf, disk, temp_dir, uploads >>

-----------------------------------------------------------------------------
(* Spec: one run of main() *)

\* a stamp inside September 2025 and one inside October 2025
RunStamps(tz) == { DateTime(2025, 9, 30, 23, 59, 59, 999999, tz),
                   DateTime(2025, 10, 1, 0, 0, 0, 0, tz) }

RunAttrs(s3) == [LastModified : RunStamps(IF s3 THEN "utc" ELSE "naive"),
                 head : {NoMetadata}, is_file : {TRUE}]

\* the clock when no --date is given
Now == DateTime(2025, 11, 2, 8, 0, 0, 250000, "naive")

ArgSets ==
    [bucket : {None, "", "my-bucket"},
     local_dir : {None, "", "./data"},
     date : {NoDateArg, DateArg(<< >>), DateArg(<< 2025, 10, 15 >>),
             DateArg(<< 2025, 1, 1 >>), DateArg(<< 2025, 13, 1 >>),
             DateArg(<< 2025, 2, 30 >>), DateArg(<< 2025, 10 >>)},
     upload_to_s3 : BOOLEAN]

Init ==
    /\ pc = "main"
    /\ args \in ArgSets
    /\ use_s3 = FALSE
    /\ reference_date = NoDate
    /\ \E present \in { P \in SUBSET (1..Len(KeyPool)) : Cardinality(P) <= MaxObjs } :
         \E attrs \in [present -> RunAttrs(Truthy(args.bucket))] :
           \E boto \in (IF Truthy(args.bucket) THEN BOOLEAN ELSE {FALSE}) :
             \E exists \in (IF Truthy(args.local_dir) THEN BOOLEAN ELSE {FALSE}) :
                env = [objects |-> MkObjects(1, present, attrs),
                       has_boto3 |-> boto,
                       local_exists |-> exists,
                       now |-> Now]
    /\ start_date = NoDate
    /\ end_date = NoDate
    /\ month_str = None
    /\ listed = [f \in {"Opening", "Customer"} |-> NotListed]
    /\ stats = NoStats
    /\ zipf = NoZip
    /\ disk = {}
    /\ temp_dir = NoTemp
    /\ uploads = << >>
    /\ exit_code = NoExit
    /\ synth = NoSynth
    /\ history = NoHistory

Next ==
    \/ ParseArgs
    \/ Construct
    \/ Begin
    \/ List("Opening")
    \/ ZipOpen("Opening")
    \/ ZipAdd("Opening")
    \/ ZipClose("Opening")
    \/ List("Customer")
    \/ ZipOpen("Customer")
    \/ ZipAdd("Customer")
    \/ ZipClose("Customer")
    \/ ExitTemp
    \/ Upload("Opening", "upload_Customer")
    \/ Upload("Customer", "summary")
    \/ Summary

Spec == Init /\ [][Next]_vars


-----------------------------------------------------------------------------
(* Properties of a run *)

Produced(f) == stats[ZipKey(f)] # << >>

InTrace(label) == label \in Range(history.trace)

NoDuplicates(seq) == Cardinality(Range(seq)) = Len(seq)

TwoDigits(m) ==
    CASE m = 1 -> "01" [] m = 2 -> "02" [] m = 3 -> "03" [] m = 4 -> "04"
      [] m = 5 -> "05" [] m = 6 -> "06" [] m = 7 -> "07" [] m = 8 -> "08"
      [] m = 9 -> "09" [] m = 10 -> "10" [] m = 11 -> "11" [] m = 12 -> "12"

\* <Folder>_<YYYY-MM>.zip for the month before the reference date D
ExpectedZipName(f, D) ==
    IF D.month = 1
    THEN f \o "_" \o ToString(D.year - 1) \o "-12.zip"
    ELSE f \o "_" \o ToString(D.year) \o "-" \o TwoDigits(D.month - 1) \o ".zip"

\* C5: when create_zip_archive completes for a non-empty list of selected
\* files, the ZIP named <Folder>_<YYYY-MM>.zip (YYYY-MM the month before the
\* reference date) holds exactly one entry per selected file, each under its
\* original relative path beginning with the folder name, and the returned
\* count equals the number of entries written.
C5_ZipHoldsSelection ==
    \A f \in Range(Folders) :
        Produced(f) =>
            /\ listed[f].files # << >>
            /\ PathName(stats[ZipKey(f)]) = ExpectedZipName(f, reference_date)
            /\ \E z \in disk :
                  /\ z.name = ExpectedZipName(f, reference_date)
                  /\ z.state = "complete"
                  /\ z.entries = listed[f].files
                  /\ NoDuplicates(z.entries)
                  /\ \A e \in Range(z.entries) :
                        /\ e[1] = f
                        /\ e \in { o.Key : o \in Objs }
                  /\ stats[FilesKey(f)] = Len(z.entries)
            /\ Cardinality({ z \in disk : z.folder = f }) = 1

\* local mode, reference date 2025-10-15, one file Opening/TXN100001/IDD.pdf
\* stamped in September 2025: Opening_2025-09.zip holds that one entry
C5_Witness ==
    /\ pc = "exit" /\ exit_code = << 0 >> /\ ~use_s3
    /\ args.date.text = << 2025, 10, 15 >>
    /\ Len(env.objects) = 1
    /\ \E z \in disk :
          /\ z.name = "Opening_2025-09.zip"
          /\ z.state = "complete"
          /\ z.entries = << << "Opening", "TXN100001", "IDD.pdf" >> >>
    /\ stats.opening_files = 1
    /\ stats.opening_zip = << OutputDir, "Opening_2025-09.zip" >>

\* C6: when the selector returns no files for a folder, no ZIP is created
\* for it, its recorded count is 0 and its archive path stays unset, the
\* other folder is still processed, and archive_previous_month finishes
\* with the summary instead of raising.
C6_EmptyFolderSkipped ==
    /\ \A f \in Range(Folders) :
          (listed[f].done /\ listed[f].files = << >>) =>
              /\ ~\E z \in disk : z.folder = f
              /\ stats[FilesKey(f)] = 0
              /\ stats[ZipKey(f)] = << >>
              /\ history.raised_at \notin { "open_" \o f, "stat_" \o f,
                                           "download_" \o f, "write_" \o f,
                                           "upload_" \o f }
    /\ (pc = "exit" /\ listed["Opening"].done
          /\ listed["Opening"].files = << >>) => InTrace("list_Customer")
    /\ (pc = "exit" /\ listed["Opening"].done /\ listed["Customer"].done
          /\ listed["Opening"].files = << >>
          /\ listed["Customer"].files = << >>) =>
              /\ exit_code = << 0 >>
              /\ history.trace[Len(history.trace)] = "summary"

\* a run with nothing selected in Opening and an archive made for Customer
\* has returned 0
C6_Witness ==
    /\ pc = "exit" /\ exit_code = << 0 >>
    /\ \E o \in Objs : o.Key[1] = "Opening"
    /\ listed["Opening"].done /\ listed["Opening"].files = << >>
    /\ stats.opening_zip = << >> /\ stats.opening_files = 0
    /\ Produced("Customer")
    /\ InTrace("summary")

\* the argument combinations the CLI rejects
InvalidArguments ==
    \/ Truthy(args.bucket) /\ Truthy(args.local_dir)
    \/ ~Truthy(args.bucket) /\ ~Truthy(args.local_dir)
    \/ /\ args.date.given
       /\ args.date.text # << >>
       /\ ~( /\ Len(args.date.text) = 3
             /\ args.date.text[2] \in 1..12
             /\ args.date.text[3] \in 1..DaysInMonth(args.date.text[1],
                                                    args.date.text[2]) )

\* C7 as stated: the archiver CLI exits with code 1 for every invalid
\* argument combination (both --bucket and --local-dir, neither, or a
\* --date that is not a valid YYYY-MM-DD date).
C7_InvalidArgumentsExitOne ==
    (pc = "exit" /\ InvalidArguments) => exit_code = << 1 >>

\* C7 amended: for every invalid argument combination the CLI exits with
\* code 2, from the argument parser, before an archiver is constructed or
\* any file is written or uploaded.
C7_InvalidArgumentsExitTwo ==
    /\ (pc = "exit" /\ InvalidArguments) =>
          /\ exit_code = << 2 >>
          /\ history.trace = << "main" >>
          /\ disk = {}
          /\ uploads = << >>
    /\ (pc # "main" /\ InvalidArguments) => pc = "exit"

\* --bucket with --date 2025-13-01 has exited with 2
C7_Witness ==
    /\ pc = "exit"
    /\ Truthy(args.bucket) /\ ~Truthy(args.local_dir)
    /\ args.date.text = << 2025, 13, 1 >>
    /\ exit_code = << 2 >>


Failed == history.raised_at # None

\* C8: if an unhandled error occurs at any step of archive_previous_month
\* (listing, download, ZIP writing or upload), the run is not retried or
\* resumed: the error reaches main, which returns exit code 1, and every
\* ZIP completely written before the failure is still on disk.
C8_FailureAbortsRun ==
    /\ Failed =>
          /\ pc = "exit"
          /\ exit_code = << 1 >>
          /\ history.trace[Len(history.trace)] = history.raised_at
          /\ NoDuplicates(history.trace)
          /\ \A n \in history.completed :
                \E z \in disk : /\ z.name = n
                                /\ z.state = "complete"
                                /\ z.entries = listed[z.folder].files
    /\ pc = "exit" => ~ENABLED Next

\* the upload of the first archive failed after both ZIPs had been
\* written: exit code 1, both ZIPs on disk, nothing uploaded
C8_Witness ==
    /\ history.raised_at = "upload_Opening"
    /\ exit_code = << 1 >>
    /\ Cardinality(history.completed) = 2
    /\ Cardinality({ z \in disk : z.state = "complete" }) = 2
    /\ uploads = << >>

\* the assembly of folder f's archive has ended, normally or by an error
AssemblyEnded(f) ==
    \/ Produced(f)
    \/ history.raised_at \in { "download_" \o f, "write_" \o f }

C10_UploadOnlyRemoteRequested ==
    /\ uploads # << >> => (args.upload_to_s3 /\ use_s3)
    /\ ~use_s3 => (uploads = << >> /\ ~InTrace("upload_Opening")
                                   /\ ~InTrace("upload_Customer"))
    /\ NoDuplicates(uploads)
    /\ NoDuplicates([i \in 1..Len(uploads) |-> uploads[i].key])
    /\ \A u \in Range(uploads) :
          \E f \in Range(Folders) :
              /\ listed[f].files # << >>
              /\ u.src = << OutputDir, ExpectedZipName(f, reference_date) >>
              /\ u.key = "archives/" \o ExpectedZipName(f, reference_date)
              /\ ExpectedZipName(f, reference_date) \in history.completed
    /\ (pc = "exit" /\ exit_code = << 0 >> /\ args.upload_to_s3 /\ use_s3) =>
          { u.src : u \in Range(uploads) }
            = { << OutputDir, n >> : n \in history.completed }

\* a remote run with upload requested archived Opening, found nothing for
\* Customer, and uploaded the one archive to archives/Opening_2025-09.zip
C10_Witness ==
    /\ pc = "exit" /\ exit_code = << 0 >>
    /\ use_s3 /\ args.upload_to_s3
    /\ \E o \in Objs : o.Key[1] = "Customer"
    /\ listed["Customer"].files = << >>
    /\ uploads = << [src |-> << OutputDir, "Opening_2025-09.zip" >>,
                     key |-> "archives/Opening_2025-09.zip"] >>


-----------------------------------------------------------------------------
(* SpecTwice: main() run, then run again with the same command line, clock
   and source set; the output directory is what the first run left *)

Rerun ==
    /\ pc = "exit"
    /\ history.run = 1
    /\ pc' = "main"
    /\ use_s3' = FALSE
    /\ reference_date' = NoDate
    /\ start_date' = NoDate
    /\ end_date' = NoDate
    /\ month_str' = None
    /\ listed' = [f \in {"Opening", "Customer"} |-> NotListed]
    /\ stats' = NoStats
    /\ zipf' = NoZip
    /\ temp_dir' = NoTemp
    /\ exit_code' = NoExit
    /\ history' = [NoHistory EXCEPT !.run = 2, !.first_disk = disk,
                                    !.first_exit = exit_code]
    /\ UNCHANGED << synth, args, env, disk, uploads >>

NextTwice ==
    \/ Next
    \/ Rerun

SpecTwice == Init /\ [][NextTwice]_vars

\* the entries of the archives in an output directory: per ZIP name, how
\* many entries it holds and which (path, contents) pairs
ArchiveEntries(d) ==
    { [name |-> z.name,
       count |-> Len(z.entries),
       entries |-> { << z.entries[i], z.data[i] >> : i \in 1..Len(z.entries) }] :
      z \in d }

BothRunsReturned ==
    /\ history.run = 2
    /\ pc = "exit"
    /\ exit_code = << 0 >>
    /\ history.first_exit = << 0 >>

\* C11: running the archiver twice in a row for the same reference date
\* over the same source set, without upload, leaves archives with the same
\* entries (same paths, same contents) after the second run as after the
\* first, and no step of either run adds, removes or changes a source file
\* or object.
C11_RerunSameArchives ==
    /\ [](( BothRunsReturned /\ ~args.upload_to_s3 ) =>
            ArchiveEntries(disk) = ArchiveEntries(history.first_disk))
    /\ [][env' = env]_vars

\* a second remote run has returned over an output directory in which the
\* first run left an archive of two entries, and left the same
C11_Witness ==
    /\ BothRunsReturned /\ ~args.upload_to_s3 /\ use_s3
    /\ \E z \in disk : /\ z.state = "complete"
                       /\ Len(z.entries) = 2
                       /\ z \in history.first_disk


-----------------------------------------------------------------------------
(* The content synthesizer: create_dummy_pdf and create_dummy_xml of
   src/generate_s3_structure.py.  A file is the sequence of the lengths of
   the byte strings written to it. *)

\* len(pdf_header), len(pdf_content)
PdfHeaderLen == 9
PdfContentLen == 575

\* len(xml_header), len(xml_start), len(xml_end)
XmlHeaderLen == 39
XmlStartLen == 39
XmlEndLen == 22

\* bytes per character of string.ascii_letters + string.digits + ' \n'
\* under encode('utf-8')
AsciiCharBytes == 1

MaxSize == 600

Max(a, b) == IF a >= b THEN a ELSE b

\* variant: the padding not reduced by what the skeleton takes
PaddingSize_whole(size_bytes, header_size) == Max(0, size_bytes)

\* padding_size = max(0, size_bytes - header_size)
PaddingSize(size_bytes, header_size) == Max(0, size_bytes - header_size)

\* the writes of create_dummy_pdf: header, content, zero padding
create_dummy_pdf(size_bytes) ==
    LET header_size == PdfHeaderLen + PdfContentLen
        padding_size == PaddingSize(size_bytes, header_size)
    IN  << PdfHeaderLen, PdfContentLen, padding_size >>

\* the writes of create_dummy_xml: header, opening tags, the padding's
\* characters encoded, closing tags
create_dummy_xml(size_bytes) ==
    LET header_size == XmlHeaderLen + XmlStartLen + XmlEndLen
        padding_size == PaddingSize(size_bytes, header_size)
    IN  << XmlHeaderLen, XmlStartLen, padding_size * AsciiCharBytes,
           XmlEndLen >>

\* requested sizes: everything around both skeletons, and the sizes of
\* OPENING_FILE_SPECS and the Customer range
Sizes == (0..MaxSize) \cup { 4 * 1024, 300 * 1024, 620 * 1024, 1300 * 1024 }

IdleArchiver ==
    /\ pc = "synth"
    /\ use_s3 = FALSE
    /\ reference_date = NoDate
    /\ env = NoEnv
    /\ args = NoArgs
    /\ start_date = NoDate
    /\ end_date = NoDate
    /\ month_str = None
    /\ listed = [f \in {"Opening", "Customer"} |-> NotListed]
    /\ stats = NoStats
    /\ zipf = NoZip
    /\ disk = {}
    /\ temp_dir = NoTemp
    /\ uploads = << >>
    /\ exit_code = NoExit
    /\ history = NoHistory

InitSynth ==
    /\ IdleArchiver
    /\ \E k \in {"pdf", "xml"} :
         \E n \in Sizes :
            synth = [pc |-> "call", kind |-> k, size_bytes |-> n,
                     written |-> << >>]

CreateDummyPdf ==
    /\ synth.pc = "call"
    /\ synth.kind = "pdf"
    /\ synth' = [synth EXCEPT !.pc = "written",
                              !.written = create_dummy_pdf(synth.size_bytes)]
    /\ UNCHANGED << pc, args, env, use_s3, reference_date, start_date,
                    end_date, month_str, listed, stats, zipf, disk,
                    temp_dir, uploads, exit_code, history >>

CreateDummyXml ==
    /\ synth.pc = "call"
    /\ synth.kind = "xml"
    /\ synth' = [synth EXCEPT !.pc = "written",
                              !.written = create_dummy_xml(synth.size_bytes)]
    /\ UNCHANGED << pc, args, env, use_s3, reference_date, start_date,
                    end_date, month_str, listed, stats, zipf, disk,
                    temp_dir, uploads, exit_code, history >>

NextSynth ==
    \/ CreateDummyPdf
    \/ CreateDummyXml

SpecSynth == InitSynth /\ [][NextSynth]_vars

RECURSIVE Sum(_)
Sum(seq) == IF seq = << >> THEN 0 ELSE Head(seq) + Sum(Tail(seq))

\* the fixed skeleton of a kind: 584 bytes for pdf (9 of header, 575 of
\* body and trailer), 100 for xml (39 of header, 39 + 22 of tags)
SkeletonOf(kind) ==
    IF kind = "pdf" THEN << 9, 575 >> ELSE << 39, 39, 22 >>

\* what was written apart from the padding
SkeletonWritten ==
    IF synth.kind = "pdf" THEN SubSeq(synth.written, 1, 2)
    ELSE << synth.written[1], synth.written[2], synth.written[4] >>

\* C12: for every requested size S >= 0 and kind K in {pdf, xml}, the file
\* written by the content synthesizer has length exactly max(S, L_K), L_K
\* being the fixed skeleton length of kind K; the skeleton is written whole,
\* with no padding, when S <= L_K.
C12_LengthIsMaxOfSizeAndSkeleton ==
    synth.pc = "written" =>
        LET S == synth.size_bytes
            L == Sum(SkeletonOf(synth.kind))
        IN  /\ Sum(synth.written) = (IF S >= L THEN S ELSE L)
            /\ SkeletonWritten = SkeletonOf(synth.kind)
            /\ S <= L => Sum(synth.written) = L

\* an xml file asked for at 50 bytes, below its skeleton, was written with
\* 100
C12_Witness ==
    /\ synth.pc = "written"
    /\ synth.kind = "xml"
    /\ synth.size_bytes = 50
    /\ Sum(synth.written) = 100


-----------------------------------------------------------------------------
(* SpecMonths: the window and the selection of runs in consecutive calendar
   months over one source set, as when the script runs monthly from cron *)

MaxMonths == 3
MaxMonthObjs == 1

\* first and last microsecond of the months from November 2024 on
MonthStamps(tz) ==
    { DateTime(2024, 11, 30, 23, 59, 59, 999999, tz),
      DateTime(2024, 12, 1, 0, 0, 0, 0, tz),
      DateTime(2024, 12, 31, 23, 59, 59, 999999, tz),
      DateTime(2025, 1, 1, 0, 0, 0, 0, tz),
      DateTime(2025, 1, 31, 23, 59, 59, 999999, tz),
      DateTime(2025, 2, 1, 0, 0, 0, 0, tz) }

MonthHeads == { NoMetadata,
                OriginalTimestamp(<< 2024, 12, 31, 23, 59, 59 >>),
                OriginalTimestamp(<< 2025, 1, 1, 0, 0, 0 >>) }

MonthAttrs(s3) ==
    IF s3 THEN [LastModified : MonthStamps("utc"), head : MonthHeads,
                is_file : {TRUE}]
    ELSE [LastModified : MonthStamps("naive"), head : {NoMetadata},
          is_file : {TRUE}]

\* the clock of a run in month m of year y: the month's first instant or
\* its last microsecond
MonthRefDates(y, m) ==
    { DateTime(y, m, 1, 0, 0, 0, 0, "naive"),
      DateTime(y, m, DaysInMonth(y, m), 23, 59, 59, 999999, "naive") }

InitMonths ==
    /\ pc = "select_window"
    /\ use_s3 \in BOOLEAN
    /\ reference_date \in MonthRefDates(2024, 11) \cup MonthRefDates(2024, 12)
    /\ \E present \in { P \in SUBSET (1..Len(KeyPool)) : Cardinality(P) <= MaxMonthObjs } :
         \E attrs \in [present -> MonthAttrs(use_s3)] :
            env = [NoEnv EXCEPT !.objects = MkObjects(1, present, attrs)]
    /\ IdleRun

\* opening_files and customer_files of the run, as a set
SelectedKeys ==
    UNION { { listed[f].files[i] : i \in 1..Len(listed[f].files) } :
            f \in {"Opening", "Customer"} }

\* the run of the following month: datetime.now() is in the next calendar
\* month, the source set is as it was
NextMonth ==
    /\ pc = "select_done"
    /\ Len(history.log) + 1 < MaxMonths
    /\ history' = [history EXCEPT !.log =
                      Append(@, [ref |-> reference_date,
                                 start |-> start_date,
                                 end |-> end_date,
                                 selected |-> SelectedKeys])]
    /\ \E d \in (IF reference_date.month = 12
                 THEN MonthRefDates(reference_date.year + 1, 1)
                 ELSE MonthRefDates(reference_date.year,
                                    reference_date.month + 1)) :
          reference_date' = d
    /\ listed' = [f \in {"Opening", "Customer"} |-> NotListed]
    /\ start_date' = NoDate
    /\ end_date' = NoDate
    /\ month_str' = None
    /\ pc' = "select_window"
    /\ UNCHANGED << args, env, use_s3, stats, zipf, disk, temp_dir, uploads,
                    exit_code, synth >>

NextMonths ==
    \/ SelectWindow
    \/ SelectFolder("Opening", "select_Customer")
    \/ SelectFolder("Customer", "select_done")
    \/ NextMonth

SpecMonths == InitMonths /\ [][NextMonths]_vars


\* the runs made so far: those logged, and the one just finished
Runs ==
    IF pc = "select_done"
    THEN Append(history.log, [ref |-> reference_date, start |-> start_date,
                              end |-> end_date, selected |-> SelectedKeys])
    ELSE history.log

\* the run's reference date lies in the calendar month after t's
RunOfMonthAfter(run, t) ==
    IF t.month = 12
    THEN run.ref.year = t.year + 1 /\ run.ref.month = 1
    ELSE run.ref.year = t.year /\ run.ref.month = t.month + 1

\* C13: the windows of runs in consecutive calendar months are disjoint and
\* leave no gap at microsecond resolution, and over such a sequence of runs
\* a file whose effective timestamp does not change is selected in the run
\* of the month after its timestamp's month and in no other, so in at most
\* one month's archive.
C13_ConsecutiveWindowsPartition ==
    /\ \A i \in 1..(Len(Runs) - 1) :
          /\ Before(Runs[i].end, Runs[i + 1].start)
          /\ PlusOneMicrosecond(Runs[i].end) = Runs[i + 1].start
    /\ \A o \in Objs :
          /\ \A i \in 1..Len(Runs) :
                (o.Key \in Runs[i].selected)
                    <=> RunOfMonthAfter(Runs[i], EffectiveTimestamp(o))
          /\ Cardinality({ i \in 1..Len(Runs) : o.Key \in Runs[i].selected }) <= 1

\* three monthly runs, November 2024 to January 2025, the last from the
\* last microsecond of January: a file stamped on the last microsecond of
\* December 2024 was selected by the January run alone
C13_Witness ==
    /\ pc = "select_done"
    /\ Len(Runs) = 3
    /\ Fields(reference_date) = << 2025, 1, 31, 23, 59, 59, 999999 >>
    /\ \E o \in Objs :
          /\ Fields(EffectiveTimestamp(o)) = << 2024, 12, 31, 23, 59, 59, 999999 >>
          /\ o.Key \in Runs[3].selected
          /\ o.Key \notin Runs[1].selected
          /\ o.Key \notin Runs[2].selected

=============================================================================
